---------------------------- MODULE Spec2Model ----------------------------
(***************************************************************************)
(* A model of the navigation toolbox: the FIR filter utilities of          *)
(* src/src/filters.py and the lever-arm / trajectory georeferencing        *)
(* functions of src/Python/georeferencing.py.                              *)
(*                                                                         *)
(* Numbers.  A float is modelled by the exact value it stands for: a pair  *)
(* <<n, d>> with d > 0 and gcd(n, d) = 1 is the rational n/d; d = 0 is a   *)
(* non-finite float: <<0, 0>> is NaN, <<1, 0>> is +inf, <<-1, 0>> is -inf. *)
(* Rounding is not modelled.                                               *)
(***************************************************************************)
EXTENDS Integers, Sequences, FiniteSets, TLC

VARIABLES
    input,            \* filter: the array handed to the filter pipeline
    data,             \* filter: the array as the last filter call returned it
    config,           \* filter: the FilterConfiguration object
    delay,            \* filter: the delay FIR_filter returned
    arm,              \* lever arm: the measured distances, ROV frame
    angle,            \* lever arm: the rotation of the camera
    lever_arm,        \* lever arm: what calculate_lever_arm returned
    cam_positions,    \* trajectory: camera positions, (N, 3)
    cam_attitudes,    \* trajectory: camera attitudes, (N, 4) float rows
    lever_arms,       \* trajectory: camera-to-transducer lever arms, (N, 3)
    trans_positions,  \* trajectory: transducer positions, (N, 3)
    inclination,      \* trajectory: the inclination align_trajectories got
    init_position,    \* trajectory: the fix georeference_trajectories got
    init_attitude,    \* trajectory: its roll, pitch and heading
    pc,               \* SLAM-relative mode: the statement to execute next
    dataset,          \* SLAM-relative mode: the data argument, by column
    aps,              \* APS-relative mode: the (K, 4) acoustic fixes
    gyro,             \* APS-relative mode: the (M, 4) gyroscope samples
    declination,      \* APS-relative mode: the camera's declination
    cam_directions,   \* APS-relative mode: the camera directions, (K, 3)
    calls,            \* the functions called so far, in order
    error             \* "none", or the exception that ended the last call

filter_vars == <<input, data, config, delay>>

lever_vars == <<arm, angle, lever_arm>>

traj_vars == <<cam_positions, cam_attitudes, lever_arms, trans_positions,
               inclination, init_position, init_attitude>>

slam_vars == <<pc, dataset>>

camera_vars == <<aps, gyro, declination, cam_directions>>

vars == <<filter_vars, lever_vars, traj_vars, slam_vars, camera_vars, calls,
          error>>

(***************************************************************************)
(* Bounds of the model.                                                    *)
(***************************************************************************)
MaxLen == 3           \* samples of a 1-D input
MaxCells == 4         \* rows * columns of a 2-D input
MaxLeg == 4           \* largest |arm[1]|, |arm[2]| of a lever arm
MaxSamples == 3       \* samples of a trajectory array

(***************************************************************************)
(* Float arithmetic.                                                       *)
(***************************************************************************)
Abs(x) == IF x < 0 THEN -x ELSE x

Sign(x) == IF x < 0 THEN -1 ELSE IF x > 0 THEN 1 ELSE 0

RECURSIVE GCD(_, _)
GCD(a, b) == IF b = 0 THEN a ELSE GCD(b, a % b)

\* The float n/d, in lowest terms with a positive denominator.
Float(n, d) ==
    IF d = 0 THEN <<Sign(n), 0>>
    ELSE LET g == GCD(Abs(n), Abs(d))
         IN  <<(Sign(d) * n) \div g, Abs(d) \div g>>

NaN == <<0, 0>>

IsNaN(x) == x = NaN

IsFinite(x) == x[2] # 0

Neg(x) == <<-x[1], x[2]>>

Add(x, y) ==
    IF x[2] = 0 /\ y[2] = 0 THEN (IF x[1] = y[1] THEN x ELSE NaN)
    ELSE IF x[2] = 0 THEN x
    ELSE IF y[2] = 0 THEN y
    ELSE Float(x[1] * y[2] + y[1] * x[2], x[2] * y[2])

Sub(x, y) == Add(x, Neg(y))

Mul(x, y) == Float(x[1] * y[1], x[2] * y[2])

\* numpy's true division: x/0 is nan for x = 0 and +-inf otherwise, no exception.
NpDiv(x, y) == Float(x[1] * y[2], x[2] * y[1])

\* Comparisons; every comparison with NaN is false.
Lt(x, y) == ~IsNaN(x) /\ ~IsNaN(y) /\ Sub(y, x)[1] > 0

Leq(x, y) == ~IsNaN(x) /\ ~IsNaN(y) /\ (x = y \/ Sub(y, x)[1] > 0)

\* The largest r in lo..hi with r * r <= n, by bisection.
RECURSIVE SqrtSearch(_, _, _)
SqrtSearch(n, lo, hi) ==
    IF lo >= hi THEN lo
    ELSE LET mid == (lo + hi + 1) \div 2
         IN  IF mid * mid <= n THEN SqrtSearch(n, mid, hi)
             ELSE SqrtSearch(n, lo, mid - 1)

\* The integer square root; exact on the perfect squares it is used on.
ISqrt(n) == SqrtSearch(n, 0, IF n < 46340 THEN n ELSE 46340)

IsSquare(n) == ISqrt(n) * ISqrt(n) = n

\* np.sqrt of a float that is the square of a rational.
Sqrt(x) == Float(ISqrt(x[1]), ISqrt(x[2]))

(***************************************************************************)
(* Angles.  An angle t is held by its half-angle: [hc, hs, hn] with        *)
(* cos(t/2) = hc/sqrt(hn) and sin(t/2) = hs/sqrt(hn), hc^2 + hs^2 = hn; so *)
(* cos(t) = (hc^2 - hs^2)/hn and sin(t) = 2*hc*hs/hn are exact.  The NaN   *)
(* angle is [0, 0, 0].                                                     *)
(***************************************************************************)
AngleZero == [hc |-> 1, hs |-> 0, hn |-> 1]

AngleQuarter == [hc |-> 1, hs |-> 1, hn |-> 2]

AngleHalf == [hc |-> 0, hs |-> 1, hn |-> 1]

AngleMinusQuarter == [hc |-> 1, hs |-> -1, hn |-> 2]

\* cos = 3/5, sin = 4/5
AngleThreeFour == [hc |-> 2, hs |-> 1, hn |-> 5]

Cos(t) == NpDiv(Float(t.hc * t.hc - t.hs * t.hs, 1), Float(t.hn, 1))

Sin(t) == NpDiv(Float(2 * t.hc * t.hs, 1), Float(t.hn, 1))

\* t - u, by the difference formulas on the half angles
AngleSub(t, u) ==
    [hc |-> t.hc * u.hc + t.hs * u.hs,
     hs |-> t.hs * u.hc - t.hc * u.hs,
     hn |-> t.hn * u.hn]

\* np.arccos(x) for x = p/q in [-1, 1] with q^2 - p^2 a square: the angle in
\* [0, pi] with tan(t/2) = sqrt(q^2 - p^2)/(q + p); arccos(nan) is nan.
ArcCos(x) ==
    IF ~IsFinite(x) THEN [hc |-> 0, hs |-> 0, hn |-> 0]
    ELSE LET p == x[1]
             q == x[2]
             r == ISqrt(q * q - p * p)
         IN  IF q + p = 0 THEN AngleHalf
             ELSE [hc |-> q + p, hs |-> r, hn |-> (q + p) * (q + p) + r * r]

(***************************************************************************)
(* Python list slicing and numpy array helpers.                            *)
(***************************************************************************)
\* The 0-based index a slice bound b denotes in a list of length n.
SliceBound(b, n) ==
    IF b < 0 THEN (IF n + b < 0 THEN 0 ELSE n + b)
    ELSE IF b > n THEN n ELSE b

\* lst[:stop], as the set of 0-based positions it selects.
SliceTo(n, stop) == {i \in 0..(n - 1) : i < SliceBound(stop, n)}

\* lst[start:]
SliceFrom(n, start) == {i \in 0..(n - 1) : i >= SliceBound(start, n)}

\* np.repeat(x, k) of a scalar, for k >= 0.
Repeat(x, k) == [i \in 1..k |-> x]

\* The subsequence of s at the 0-based positions not in del, in order.
RECURSIVE DeleteAt(_, _, _)
DeleteAt(s, del, i) ==
    IF i > Len(s) THEN <<>>
    ELSE (IF (i - 1) \in del THEN <<>> ELSE <<s[i]>>) \o DeleteAt(s, del, i + 1)

\* The length of data along the padded axis (axis 0 if 1-D, axis 1 if 2-D).
AxisLen(d) ==
    IF d.ndim = 1 THEN Len(d.a)
    ELSE IF Len(d.a) = 0 THEN 0 ELSE Len(d.a[1])

(***************************************************************************)
(* class FilterConfiguration                                               *)
(***************************************************************************)
FilterConfiguration(order, cutoff, appendage) ==
    [order |-> order, cutoff |-> cutoff, appendage |-> appendage,
     sample_frequency |-> 0]

(***************************************************************************)
(* add_appendage                                                           *)
(***************************************************************************)
\* np.repeat raises ValueError for a negative repeat count.
add_appendage_raises(d, cfg) == cfg.appendage < 0

\* front, data, end concatenated along the padded axis
pad_row(row, k) == Repeat(row[1], k) \o row \o Repeat(row[Len(row)], k)

\* A 2-D array padded with np.take(data, 0) and np.take(data, -1) taken
\* without axis=1: every row gets the edge samples of the first and last row.
add_appendage_flat_take(d, cfg) ==
    IF d.ndim = 1
    THEN [ndim |-> 1, a |-> pad_row(d.a, cfg.appendage)]
    ELSE [ndim |-> 2,
          a |-> [r \in 1..Len(d.a) |->
                    Repeat(d.a[1][1], cfg.appendage) \o d.a[r]
                      \o Repeat(d.a[Len(d.a)][Len(d.a[1])], cfg.appendage)]]

add_appendage(d, cfg) ==
    IF d.ndim = 1
    THEN [ndim |-> 1, a |-> pad_row(d.a, cfg.appendage)]
    ELSE [ndim |-> 2,
          a |-> [r \in 1..Len(d.a) |-> pad_row(d.a[r], cfg.appendage)]]

(***************************************************************************)
(* remove_appendage                                                        *)
(***************************************************************************)
\* indices[:appendage] + indices[-appendage:] over indices = range(length)
appendage_indices(length, k) == SliceTo(length, k) \cup SliceFrom(length, -k)

remove_appendage(d, cfg) ==
    LET indices == appendage_indices(AxisLen(d), cfg.appendage)
    IN  IF d.ndim = 1
        THEN [ndim |-> 1, a |-> DeleteAt(d.a, indices, 1)]
        ELSE [ndim |-> 2,
              a |-> [r \in 1..Len(d.a) |-> DeleteAt(d.a[r], indices, 1)]]

(***************************************************************************)
(* scipy.signal.firwin and lfilter, as FIR_filter uses them.               *)
(*                                                                         *)
(* firwin's tap values are a windowed sinc, which is transcendental; what  *)
(* is kept of the design is its argument validation, the number of taps,   *)
(* the symmetry of the taps (linear phase) and their sum of one (unity     *)
(* gain at zero frequency): tap k of K is min(k, K + 1 - k) over the sum   *)
(* of these weights.  A NaN normalised cutoff gives NaN taps.              *)
(***************************************************************************)
\* cutoff / nyq, with nyq = 0.5 * fs
normalised_cutoff(cfg) ==
    NpDiv(cfg.cutoff, Mul(Float(1, 2), Float(cfg.sample_frequency, 1)))

\* firwin raises ValueError unless 0 < cutoff/nyq < 1 (a NaN passes both
\* comparisons); a window of negative length is refused, and lfilter refuses
\* an empty tap vector.
firwin_raises(cfg) ==
    \/ Leq(normalised_cutoff(cfg), Float(0, 1))
    \/ Leq(Float(1, 1), normalised_cutoff(cfg))
    \/ cfg.order <= 0

tap_weight(k, K) == IF k < K + 1 - k THEN k ELSE K + 1 - k

RECURSIVE weight_sum(_, _)
weight_sum(k, K) == IF k > K THEN 0 ELSE tap_weight(k, K) + weight_sum(k + 1, K)

firwin(cfg) ==
    [k \in 1..cfg.order |->
        IF IsNaN(normalised_cutoff(cfg)) THEN NaN
        ELSE Float(tap_weight(k, cfg.order), weight_sum(1, cfg.order))]

\* sum over k of b[k] * x[n - k], the causal convolution with zero initial state
RECURSIVE convolve_at(_, _, _, _)
convolve_at(b, x, n, k) ==
    IF k > Len(b) \/ k > n THEN Float(0, 1)
    ELSE Add(Mul(b[k], Float(x[n - k + 1], 1)), convolve_at(b, x, n, k + 1))

lfilter_row(b, x) == [n \in 1..Len(x) |-> convolve_at(b, x, n, 1)]

Transpose(rows) ==
    IF Len(rows) = 0 THEN <<>>
    ELSE [c \in 1..Len(rows[1]) |-> [r \in 1..Len(rows) |-> rows[r][c]]]

\* lfilter(b, 1.0, data, axis)
lfilter(b, d, axis) ==
    IF d.ndim = 1 THEN [ndim |-> 1, a |-> lfilter_row(b, d.a)]
    ELSE IF axis = 0
    THEN [ndim |-> 2,
          a |-> Transpose([c \in 1..AxisLen(d) |->
                              lfilter_row(b, Transpose(d.a)[c])])]
    ELSE [ndim |-> 2, a |-> [r \in 1..Len(d.a) |-> lfilter_row(b, d.a[r])]]

(***************************************************************************)
(* FIR_filter                                                              *)
(***************************************************************************)
\* Python's float division raises ZeroDivisionError for a zero divisor.
FIR_filter_raises(cfg) ==
    IF firwin_raises(cfg) THEN "ValueError"
    ELSE IF cfg.sample_frequency = 0 THEN "ZeroDivisionError"
    ELSE "none"

FIR_delay_order(cfg) ==
    NpDiv(Mul(Float(1, 2), Float(cfg.order, 1)), Float(cfg.sample_frequency, 1))

FIR_delay(cfg) ==
    NpDiv(Mul(Float(1, 2), Float(cfg.order - 1, 1)),
          Float(cfg.sample_frequency, 1))

FIR_filter_data(d, cfg, axis) ==
    lfilter(firwin(cfg), d, IF d.ndim = 1 THEN -1 ELSE axis)

(***************************************************************************)
(* calculate_lever_arm                                                     *)
(***************************************************************************)
\* phi = alpha - angle, the operands of the subtraction exchanged
calculate_lever_arm_swapped(arm_, angle_) ==
    LET a == arm_[2]
        b == arm_[3]
        c == Sqrt(Add(Mul(a, a), Mul(b, b)))
        alpha == ArcCos(NpDiv(b, c))
        phi == AngleSub(alpha, angle_)
        d == Mul(c, Cos(phi))
        e == Mul(c, Sin(phi))
    IN  <<Neg(arm_[1]), e, Neg(d)>>

calculate_lever_arm(arm_, angle_) ==
    LET a == arm_[2]
        b == arm_[3]
        c == Sqrt(Add(Mul(a, a), Mul(b, b)))
        alpha == ArcCos(NpDiv(b, c))
        phi == AngleSub(angle_, alpha)
        d == Mul(c, Cos(phi))
        e == Mul(c, Sin(phi))
    IN  <<Neg(arm_[1]), e, Neg(d)>>

(***************************************************************************)
(* Quaternions and vectors.  A vector is a triple of floats.  A quaternion *)
(* is [w, x, y, z, s] with integer w, x, y, z and s > 0, standing for      *)
(* (w + x i + y j + z k)/sqrt(s): the quaternion of a quarter turn,        *)
(* (1 + i)/sqrt(2), is then exact.  A row of an (N, 4) float array of      *)
(* attitudes is the tuple <<w, x, y, z, s>>.                               *)
(***************************************************************************)
LCM(a, b) == (a * b) \div GCD(a, b)

VAdd(u, v) == <<Add(u[1], v[1]), Add(u[2], v[2]), Add(u[3], v[3])>>

VSub(u, v) == <<Sub(u[1], v[1]), Sub(u[2], v[2]), Sub(u[3], v[3])>>

\* The Hamilton product p * q.
QMul(p, q) ==
    [w |-> p.w * q.w - p.x * q.x - p.y * q.y - p.z * q.z,
     x |-> p.w * q.x + p.x * q.w + p.y * q.z - p.z * q.y,
     y |-> p.w * q.y - p.x * q.z + p.y * q.w + p.z * q.x,
     z |-> p.w * q.z + p.x * q.y - p.y * q.x + p.z * q.w,
     s |-> p.s * q.s]

\* q.conjugate()
QConj(q) == [w |-> q.w, x |-> -q.x, y |-> -q.y, z |-> -q.z, s |-> q.s]

\* quaternion.as_quat_array of one row
as_quat(row) ==
    [w |-> row[1], x |-> row[2], y |-> row[3], z |-> row[4], s |-> row[5]]

\* quaternion.as_float_array of one quaternion
as_float(q) == <<q.w, q.x, q.y, q.z, q.s>>

as_quat_array(rows) == [i \in 1..Len(rows) |-> as_quat(rows[i])]

as_float_array(qs) == [i \in 1..Len(qs) |-> as_float(qs[i])]

\* utilities.vector_to_quaternion of one vector: the pure quaternion
\* (0, v), over the common denominator of v's components.
vector_to_quaternion_1(v) ==
    LET D == LCM(LCM(v[1][2], v[2][2]), v[3][2])
    IN  [w |-> 0,
         x |-> v[1][1] * (D \div v[1][2]),
         y |-> v[2][1] * (D \div v[2][2]),
         z |-> v[3][1] * (D \div v[3][2]),
         s |-> D * D]

\* utilities.quaternion_to_vector of one quaternion: its vector part.
quaternion_to_vector_1(q) ==
    LET d == ISqrt(q.s)
    IN  <<Float(q.x, d), Float(q.y, d), Float(q.z, d)>>

vector_to_quaternion(vs) ==
    [i \in 1..Len(vs) |-> vector_to_quaternion_1(vs[i])]

quaternion_to_vector(qs) ==
    [i \in 1..Len(qs) |-> quaternion_to_vector_1(qs[i])]

\* utilities.quaternion_from_axis_angle:
\* (cos(angle/2), sin(angle/2) * axis), for an axis of integers
quaternion_from_axis_angle(axis, t) ==
    [w |-> t.hc, x |-> t.hs * axis[1], y |-> t.hs * axis[2],
     z |-> t.hs * axis[3], s |-> t.hn]

\* -angle
AngleNeg(t) == [hc |-> t.hc, hs |-> -t.hs, hn |-> t.hn]

(***************************************************************************)
(* numpy broadcasting of two arrays along their first axis.                *)
(***************************************************************************)
Broadcastable(m, n) == m = n \/ m = 1 \/ n = 1

BroadcastLen(m, n) == IF m = 1 THEN n ELSE m

At(A, i) == A[IF Len(A) = 1 THEN 1 ELSE i]

\* A * B of two quaternion arrays
ArrQMul(A, B) ==
    [i \in 1..BroadcastLen(Len(A), Len(B)) |-> QMul(At(A, i), At(B, i))]

\* q * A of a quaternion and a quaternion array
ScalarQMul(q, A) == [i \in 1..Len(A) |-> QMul(q, A[i])]

ArrQMulScalar(A, q) == [i \in 1..Len(A) |-> QMul(A[i], q)]

ArrQConj(A) == [i \in 1..Len(A) |-> QConj(A[i])]

\* A + B of two (N, 3) arrays
ArrVAdd(A, B) ==
    [i \in 1..BroadcastLen(Len(A), Len(B)) |-> VAdd(At(A, i), At(B, i))]

\* A - v + w of an (N, 3) array and two vectors
ArrTranslate(A, v, w) == [i \in 1..Len(A) |-> VAdd(VSub(A[i], v), w)]

(***************************************************************************)
(* calculate_transducer_trajectory                                         *)
(*                                                                         *)
(* The camera directions are computed and dropped; all that is seen of     *)
(* them is the broadcast of the attitudes against the positions' shape.    *)
(***************************************************************************)
calculate_transducer_trajectory_raises(pos, att, arms) ==
    \/ ~Broadcastable(Len(att), Len(pos))
    \/ ~Broadcastable(Len(att), Len(arms))
    \/ ~Broadcastable(Len(pos), BroadcastLen(Len(att), Len(arms)))

\* conjugate(q) * lever * q, the conjugate on the wrong side
calculate_transducer_trajectory_inverse(pos, att, arms) ==
    LET q == as_quat_array(att)
        rotated == ArrQMul(ArrQMul(ArrQConj(q), vector_to_quaternion(arms)), q)
    IN  ArrVAdd(pos, quaternion_to_vector(rotated))

calculate_transducer_trajectory(pos, att, arms) ==
    LET q == as_quat_array(att)
        rotated == ArrQMul(ArrQMul(q, vector_to_quaternion(arms)), ArrQConj(q))
    IN  ArrVAdd(pos, quaternion_to_vector(rotated))

(***************************************************************************)
(* align_trajectories                                                      *)
(***************************************************************************)
XAxis == <<1, 0, 0>>

YAxis == <<0, 1, 0>>

ZAxis == <<0, 0, 1>>

\* rotation = q_2 * q_1 * q_i
align_rotation(incl) ==
    LET q_i == quaternion_from_axis_angle(XAxis, AngleNeg(incl))
        q_1 == quaternion_from_axis_angle(YAxis, AngleQuarter)
        q_2 == quaternion_from_axis_angle(XAxis, AngleQuarter)
    IN  QMul(QMul(q_2, q_1), q_i)

\* rotation * p * rotation.conjugate() over an (N, 3) array
RotateArray(rotation, vs) ==
    quaternion_to_vector(
        ArrQMulScalar(ScalarQMul(rotation, vector_to_quaternion(vs)),
                      QConj(rotation)))

\* cam_attitudes * cam_directions * cam_attitudes.conjugate() broadcasts the
\* attitudes against the directions, which have the positions' shape.
align_trajectories_raises(pos, att, trans) ==
    ~Broadcastable(Len(att), Len(pos))

align_trajectories(pos, att, trans, incl) ==
    LET rotation == align_rotation(incl)
    IN  [cam_positions |-> RotateArray(rotation, pos),
         cam_attitudes |->
             as_float_array(ScalarQMul(rotation, as_quat_array(att))),
         trans_positions |-> RotateArray(rotation, trans)]

(***************************************************************************)
(* georeference_trajectories                                               *)
(***************************************************************************)
\* rotation = q_yaw * q_pitch * q_roll
georeference_rotation(att0) ==
    LET q_roll == quaternion_from_axis_angle(XAxis, att0[1])
        q_pitch == quaternion_from_axis_angle(YAxis, att0[2])
        q_yaw == quaternion_from_axis_angle(ZAxis, att0[3])
    IN  QMul(QMul(q_yaw, q_pitch), q_roll)

\* The translation taken from the first camera position.
georeference_trajectories_camera_origin(pos, att, trans, pos0, att0) ==
    LET rotation == georeference_rotation(att0)
        cam == RotateArray(rotation, pos)
        tra == RotateArray(rotation, trans)
        trans_init_position == cam[1]
    IN  [cam_positions |-> ArrTranslate(cam, trans_init_position, pos0),
         cam_attitudes |->
             as_float_array(ScalarQMul(rotation, as_quat_array(att))),
         trans_positions |-> ArrTranslate(tra, trans_init_position, pos0)]

georeference_trajectories(pos, att, trans, pos0, att0) ==
    LET rotation == georeference_rotation(att0)
        cam == RotateArray(rotation, pos)
        tra == RotateArray(rotation, trans)
        trans_init_position == tra[1]
    IN  [cam_positions |-> ArrTranslate(cam, trans_init_position, pos0),
         cam_attitudes |->
             as_float_array(ScalarQMul(rotation, as_quat_array(att))),
         trans_positions |-> ArrTranslate(tra, trans_init_position, pos0)]

(***************************************************************************)
(* The inputs of the filter pipeline.                                      *)
(***************************************************************************)
Samples == {1, 2}

Arrays1D == UNION {[1..n -> Samples] : n \in 1..MaxLen}

Shapes2D == {s \in (1..MaxCells) \X (1..MaxCells) : s[1] * s[2] <= MaxCells}

Arrays2D == UNION {[1..s[1] -> [1..s[2] -> Samples]] : s \in Shapes2D}

Orders == {0, 2, 8}

Cutoffs == {Float(0, 1), Float(1, 20), Float(50, 1)}

Appendages == {-1, 0, 1, 2}

SampleFrequencies == {1, 100}

Axes == {-1, 0, 1}

NoDelay == <<"unset">>

\* The value of a variable the specification at hand does not use.
NotUsed == <<"not used">>

FilterIdle ==
    /\ input = NotUsed
    /\ data = NotUsed
    /\ config = NotUsed
    /\ delay = NotUsed

LeverIdle ==
    /\ arm = NotUsed
    /\ angle = NotUsed
    /\ lever_arm = NotUsed

TrajIdle ==
    /\ cam_positions = NotUsed
    /\ cam_attitudes = NotUsed
    /\ lever_arms = NotUsed
    /\ trans_positions = NotUsed
    /\ inclination = NotUsed
    /\ init_position = NotUsed
    /\ init_attitude = NotUsed

SlamIdle ==
    /\ pc = NotUsed
    /\ dataset = NotUsed

CameraIdle ==
    /\ aps = NotUsed
    /\ gyro = NotUsed
    /\ declination = NotUsed
    /\ cam_directions = NotUsed

(***************************************************************************)
(* The filter pipeline: a configuration is constructed, the caller sets    *)
(* its sample frequency, and the data goes through add_appendage,          *)
(* FIR_filter and remove_appendage.  An exception ends the run.            *)
(***************************************************************************)
InitFilter ==
    /\ \/ \E a \in Arrays1D : input = [ndim |-> 1, a |-> a]
       \/ \E a \in Arrays2D : input = [ndim |-> 2, a |-> a]
    /\ data = input
    /\ \E o \in Orders, c \in Cutoffs, b \in Appendages :
           config = FilterConfiguration(o, c, b)
    /\ delay = NoDelay
    /\ LeverIdle
    /\ TrajIdle
    /\ SlamIdle
    /\ CameraIdle
    /\ calls = <<>>
    /\ error = "none"

SetSampleFrequency ==
    /\ error = "none"
    /\ config.sample_frequency = 0
    /\ \E fs \in SampleFrequencies :
           config' = [config EXCEPT !.sample_frequency = fs]
    /\ UNCHANGED <<input, data, delay, lever_vars, traj_vars, calls, error,
                   slam_vars, camera_vars>>

AddAppendage ==
    /\ error = "none"
    /\ calls = <<>>
    /\ calls' = Append(calls, "add_appendage")
    /\ IF add_appendage_raises(data, config)
       THEN error' = "ValueError" /\ UNCHANGED data
       ELSE data' = add_appendage(data, config) /\ UNCHANGED error
    /\ UNCHANGED <<input, config, delay, lever_vars, traj_vars,
                   slam_vars, camera_vars>>

FIRFilter ==
    /\ error = "none"
    /\ calls \in {<<>>, <<"add_appendage">>}
    /\ calls' = Append(calls, "FIR_filter")
    /\ \E axis \in Axes :
          IF FIR_filter_raises(config) # "none"
          THEN error' = FIR_filter_raises(config) /\ UNCHANGED <<data, delay>>
          ELSE /\ data' = FIR_filter_data(data, config, axis)
               /\ delay' = FIR_delay(config)
               /\ UNCHANGED error
    /\ UNCHANGED <<input, config, lever_vars, traj_vars,
                   slam_vars, camera_vars>>

RemoveAppendage ==
    /\ error = "none"
    /\ calls \in {<<"add_appendage">>, <<"add_appendage", "FIR_filter">>}
    /\ calls' = Append(calls, "remove_appendage")
    /\ data' = remove_appendage(data, config)
    /\ UNCHANGED <<input, config, delay, lever_vars, traj_vars, error,
                   slam_vars, camera_vars>>

NextFilter ==
    \/ SetSampleFrequency
    \/ AddAppendage
    \/ FIRFilter
    \/ RemoveAppendage

SpecFilter == InitFilter /\ [][NextFilter]_vars

(***************************************************************************)
(* Claims about the filter pipeline, checked under SpecFilter.             *)
(***************************************************************************)
Rows(d) == IF d.ndim = 1 THEN <<d.a>> ELSE d.a

Returned(f) ==
    /\ calls # <<>>
    /\ calls[Len(calls)] = f
    /\ error = "none"

\* C1: remove_appendage(add_appendage(A, b), b) is A itself, for every
\* boundary b >= 0, b = 0 included.
C1_PadUnpadInverse ==
    (calls = <<"add_appendage", "remove_appendage">> /\ error = "none")
        => data = input

\* The round trip for the boundaries that are not zero.
C1_PadUnpadInversePositive ==
    (calls = <<"add_appendage", "remove_appendage">> /\ error = "none"
        /\ config.appendage > 0)
        => data = input

\* C2: add_appendage of a non-empty input with n samples (per row) returns,
\* with the same rows, n + 2b samples per row: b copies of the row's first
\* sample, the row unchanged and in order, b copies of the row's last sample.
C2_AddAppendageEdges ==
    (calls = <<"add_appendage">> /\ error = "none") =>
        LET b == config.appendage
        IN  /\ b >= 0
            /\ data.ndim = input.ndim
            /\ Len(Rows(data)) = Len(Rows(input))
            /\ \A r \in 1..Len(Rows(input)) :
                   LET in == Rows(input)[r]
                       out == Rows(data)[r]
                       n == Len(in)
                   IN  /\ Len(out) = n + 2 * b
                       /\ \A i \in 1..b : out[i] = in[1]
                       /\ \A i \in 1..n : out[b + i] = in[i]
                       /\ \A i \in 1..b : out[b + n + i] = in[n]

\* C2's case: a 2-D input whose rows differ in both edge samples, padded by 2.
C2_Witness ==
    /\ calls = <<"add_appendage">>
    /\ error = "none"
    /\ config.appendage = 2
    /\ input.ndim = 2
    /\ Len(input.a) = 2
    /\ Len(input.a[1]) = 2
    /\ input.a[1][1] # input.a[2][1]
    /\ input.a[1][2] # input.a[2][2]
    /\ input.a[1][1] # input.a[1][2]
    /\ Len(data.a[2]) = 6

\* C3: add_appendage, FIR_filter, remove_appendage in this order return as
\* many samples per row as the input has, for every boundary and order.
C3_PipelineKeepsLength ==
    (calls = <<"add_appendage", "FIR_filter", "remove_appendage">>
        /\ error = "none")
        => /\ data.ndim = input.ndim
           /\ Len(Rows(data)) = Len(Rows(input))
           /\ AxisLen(data) = AxisLen(input)

\* The pipeline's length for the boundaries that are not zero, and the
\* length FIR_filter itself keeps.
C3_PipelineKeepsLengthPositive ==
    /\ (calls = <<"add_appendage", "FIR_filter", "remove_appendage">>
          /\ error = "none" /\ config.appendage > 0)
          => /\ data.ndim = input.ndim
             /\ Len(Rows(data)) = Len(Rows(input))
             /\ AxisLen(data) = AxisLen(input)
    /\ (calls = <<"add_appendage", "FIR_filter">> /\ error = "none")
          => AxisLen(data) = AxisLen(input) + 2 * config.appendage

\* C4: the delay FIR_filter returns satisfies 2 * fs * delay = K - 1, whatever
\* the data, the cutoff and the axis; it is 0.035 for K = 8 and fs = 100.
C4_DelayFormula ==
    Returned("FIR_filter") =>
        /\ config.order >= 1
        /\ config.sample_frequency > 0
        /\ Mul(Float(2 * config.sample_frequency, 1), delay)
               = Float(config.order - 1, 1)
        /\ (config.order = 8 /\ config.sample_frequency = 100)
               => delay = Float(35, 1000)

\* C4's case: the 8-tap filter at 100 Hz has run on a 2-D array along axis 0.
C4_Witness ==
    /\ Returned("FIR_filter")
    /\ config.order = 8
    /\ config.sample_frequency = 100
    /\ data.ndim = 2
    /\ delay = Float(7, 200)

\* The configurations the specification calls invalid.
InvalidConfiguration(cfg) ==
    \/ cfg.order <= 0
    \/ Leq(cfg.cutoff, Float(0, 1))
    \/ Leq(Float(cfg.sample_frequency, 2), cfg.cutoff)
    \/ cfg.appendage < 0
    \/ cfg.appendage < cfg.order
    \/ cfg.sample_frequency = 0

\* C10: with an invalid configuration (order <= 0, cutoff <= 0 or >= Nyquist,
\* boundary < 0 or smaller than the order, sample frequency unset) no call of
\* add_appendage, remove_appendage or FIR_filter returns: each ends in an error.
C10_InvalidConfigurationFails ==
    (InvalidConfiguration(config) /\ calls # <<>>) => error # "none"

\* What the code does check: FIR_filter returns only for a positive order, a
\* cutoff inside (0, Nyquist) and a sample frequency that was set.
C10_FIRFilterValidates ==
    Returned("FIR_filter") =>
        /\ config.order > 0
        /\ Lt(Float(0, 1), config.cutoff)
        /\ Lt(config.cutoff, Float(config.sample_frequency, 2))
        /\ config.sample_frequency # 0

(***************************************************************************)
(* The lever-arm resolver: one call of calculate_lever_arm on measured     *)
(* distances whose legs arm[1], arm[2] have an integer hypotenuse (the     *)
(* floats of this model are rationals), the degenerate legs (0, 0) among   *)
(* them.  numpy divides 0 by 0 to nan with a warning, not an exception.    *)
(***************************************************************************)
Legs == {l \in (-MaxLeg..MaxLeg) \X (-MaxLeg..MaxLeg) :
            IsSquare(l[1] * l[1] + l[2] * l[2])}

AlongAxis == {-1, 0, 2}

LeverAngles ==
    {AngleZero, AngleQuarter, AngleHalf, AngleMinusQuarter, AngleThreeFour}

InitLever ==
    /\ FilterIdle
    /\ TrajIdle
    /\ SlamIdle
    /\ CameraIdle
    /\ \E x \in AlongAxis, l \in Legs :
           arm = <<Float(x, 1), Float(l[1], 1), Float(l[2], 1)>>
    /\ angle \in LeverAngles
    /\ lever_arm = NotUsed
    /\ calls = <<>>
    /\ error = "none"

CalculateLeverArm ==
    /\ error = "none"
    /\ calls = <<>>
    /\ calls' = Append(calls, "calculate_lever_arm")
    /\ lever_arm' = calculate_lever_arm(arm, angle)
    /\ UNCHANGED <<filter_vars, traj_vars, arm, angle, error,
                   slam_vars, camera_vars>>

NextLever == CalculateLeverArm

SpecLever == InitLever /\ [][NextLever]_vars

(***************************************************************************)
(* Claims about the lever-arm resolver, checked under SpecLever.           *)
(***************************************************************************)
Hypotenuse(arm_) == Sqrt(Add(Mul(arm_[2], arm_[2]), Mul(arm_[3], arm_[3])))

Degenerate(arm_) == arm_[2] = Float(0, 1) /\ arm_[3] = Float(0, 1)

FloatAbs(x) == <<Abs(x[1]), x[2]>>

\* C7, as stated: with angle = 0 and legs not both zero the resolver returns
\* [-arm[0], 0, -c], c the hypotenuse of the legs.
C7_AngleZeroIsHypotenuse ==
    (Returned("calculate_lever_arm") /\ angle = AngleZero /\ ~Degenerate(arm))
        => lever_arm = <<Neg(arm[1]), Float(0, 1), Neg(Hypotenuse(arm))>>

\* C7, amended: with angle = 0 and legs not both zero the resolver returns
\* [-arm[0], -|arm[1]|, -arm[2]].
C7_AngleZeroNegatesLegs ==
    (Returned("calculate_lever_arm") /\ angle = AngleZero /\ ~Degenerate(arm))
        => lever_arm = <<Neg(arm[1]), Neg(FloatAbs(arm[2])), Neg(arm[3])>>

\* C7's case: angle 0 on the legs (-3, 4), both outputs away from the
\* hypotenuse form.
C7_Witness ==
    /\ Returned("calculate_lever_arm")
    /\ angle = AngleZero
    /\ arm = <<Float(2, 1), Float(-3, 1), Float(4, 1)>>
    /\ lever_arm = <<Float(-2, 1), Float(-3, 1), Float(-4, 1)>>

\* C9: calculate_lever_arm with arm[1] = arm[2] = 0 ends in an error and
\* returns no vector, for every arm[0] and every angle.
C9_DegenerateGeometryRaises ==
    (calls = <<"calculate_lever_arm">> /\ Degenerate(arm)) => error # "none"

\* What the code returns for the degenerate legs: [-arm[0], nan, nan].
C9_DegenerateGivesNaN ==
    (calls = <<"calculate_lever_arm">> /\ Degenerate(arm))
        => lever_arm = <<Neg(arm[1]), NaN, NaN>>

(***************************************************************************)
(* The trajectory pipeline: camera positions, attitudes and lever arms go  *)
(* through calculate_transducer_trajectory, align_trajectories and         *)
(* georeference_trajectories.  The arrays' sample counts are independent:  *)
(* no function checks them, numpy's broadcasting decides.                  *)
(***************************************************************************)
Vec(x, y, z) == <<Float(x, 1), Float(y, 1), Float(z, 1)>>

SampleCounts == 1..MaxSamples

\* A track of n camera positions from a start, one step per sample.
Track(start, n) ==
    [i \in 1..n |-> VAdd(start, Vec(i - 1, 2 * (i - 1), 1 - i))]

PositionStarts == {Vec(0, 0, 0), Vec(1, 2, 3)}

\* The identity, a quarter turn about x, a quaternion that is not unit.
AttitudeList == <<<<1, 0, 0, 0, 1>>, <<1, 1, 0, 0, 2>>, <<0, 1, 0, 2, 1>>>>

\* n attitudes, taking turns through AttitudeList from its k-th entry.
Attitudes(k, n) == [i \in 1..n |-> AttitudeList[((i + k - 2) % 3) + 1]]

\* np.tile(lever_arm, (n, 1)), and lever arms that differ per sample.
Tile(v, n) == [i \in 1..n |-> v]

LeverArmArrays(n) ==
    {Tile(Vec(0, 0, 0), n), Tile(Vec(1, 0, 2), n),
     [i \in 1..n |-> Vec(i, -1, 2 * i)]}

Inclinations == {AngleZero, AngleThreeFour}

InitPositions == {Vec(0, 0, 0), Vec(5, -7, 9)}

InitAttitudes ==
    {<<AngleZero, AngleZero, AngleZero>>,
     <<AngleQuarter, AngleZero, AngleMinusQuarter>>,
     <<AngleThreeFour, AngleQuarter, AngleHalf>>}

InitTraj ==
    /\ FilterIdle
    /\ LeverIdle
    /\ SlamIdle
    /\ CameraIdle
    /\ \E n \in SampleCounts, start \in PositionStarts :
           cam_positions = Track(start, n)
    /\ \E n \in SampleCounts, k \in 1..3 : cam_attitudes = Attitudes(k, n)
    /\ \E n \in SampleCounts : lever_arms \in LeverArmArrays(n)
    /\ trans_positions = NotUsed
    /\ inclination = NotUsed
    /\ init_position = NotUsed
    /\ init_attitude = NotUsed
    /\ calls = <<>>
    /\ error = "none"

CalculateTransducerTrajectory ==
    /\ error = "none"
    /\ calls = <<>>
    /\ calls' = Append(calls, "calculate_transducer_trajectory")
    /\ IF calculate_transducer_trajectory_raises(cam_positions, cam_attitudes,
                                                 lever_arms)
       THEN error' = "ValueError" /\ UNCHANGED trans_positions
       ELSE /\ trans_positions' = calculate_transducer_trajectory(
                    cam_positions, cam_attitudes, lever_arms)
            /\ UNCHANGED error
    /\ UNCHANGED <<filter_vars, lever_vars, cam_positions, cam_attitudes,
                   lever_arms, inclination, init_position, init_attitude,
                   slam_vars, camera_vars>>

AlignTrajectories ==
    /\ error = "none"
    /\ calls = <<"calculate_transducer_trajectory">>
    /\ calls' = Append(calls, "align_trajectories")
    /\ \E incl \in Inclinations :
          /\ inclination' = incl
          /\ IF align_trajectories_raises(cam_positions, cam_attitudes,
                                          trans_positions)
             THEN /\ error' = "ValueError"
                  /\ UNCHANGED <<cam_positions, cam_attitudes, trans_positions>>
             ELSE LET r == align_trajectories(cam_positions, cam_attitudes,
                                              trans_positions, incl)
                  IN  /\ cam_positions' = r.cam_positions
                      /\ cam_attitudes' = r.cam_attitudes
                      /\ trans_positions' = r.trans_positions
                      /\ UNCHANGED error
    /\ UNCHANGED <<filter_vars, lever_vars, lever_arms, init_position,
                   init_attitude,
                   slam_vars, camera_vars>>

GeoreferenceTrajectories ==
    /\ error = "none"
    /\ calls = <<"calculate_transducer_trajectory", "align_trajectories">>
    /\ calls' = Append(calls, "georeference_trajectories")
    /\ \E pos0 \in InitPositions, att0 \in InitAttitudes :
          LET r == georeference_trajectories(cam_positions, cam_attitudes,
                                             trans_positions, pos0, att0)
          IN  /\ init_position' = pos0
              /\ init_attitude' = att0
              /\ cam_positions' = r.cam_positions
              /\ cam_attitudes' = r.cam_attitudes
              /\ trans_positions' = r.trans_positions
    /\ UNCHANGED <<filter_vars, lever_vars, lever_arms, inclination, error,
                   slam_vars, camera_vars>>

NextTraj ==
    \/ CalculateTransducerTrajectory
    \/ AlignTrajectories
    \/ GeoreferenceTrajectories

SpecTraj == InitTraj /\ [][NextTraj]_vars

(***************************************************************************)
(* Claims about the trajectory pipeline, checked under SpecTraj.           *)
(***************************************************************************)
\* The rotation of a vector by a quaternion (w, x, y, z)/sqrt(s) written out
\* as a matrix product: q * v * conj(q) = M(q) v / s.
MatrixRotate(q, v) ==
    LET ww == q.w * q.w
        xx == q.x * q.x
        yy == q.y * q.y
        zz == q.z * q.z
        m11 == Float(ww + xx - yy - zz, q.s)
        m12 == Float(2 * (q.x * q.y - q.w * q.z), q.s)
        m13 == Float(2 * (q.x * q.z + q.w * q.y), q.s)
        m21 == Float(2 * (q.x * q.y + q.w * q.z), q.s)
        m22 == Float(ww - xx + yy - zz, q.s)
        m23 == Float(2 * (q.y * q.z - q.w * q.x), q.s)
        m31 == Float(2 * (q.x * q.z - q.w * q.y), q.s)
        m32 == Float(2 * (q.y * q.z + q.w * q.x), q.s)
        m33 == Float(ww - xx - yy + zz, q.s)
    IN  <<Add(Add(Mul(m11, v[1]), Mul(m12, v[2])), Mul(m13, v[3])),
          Add(Add(Mul(m21, v[1]), Mul(m22, v[2])), Mul(m23, v[3])),
          Add(Add(Mul(m31, v[1]), Mul(m32, v[2])), Mul(m33, v[3]))>>

SameSampleCount(A, B, C) == Len(A) = Len(B) /\ Len(B) = Len(C)

\* C5: georeference_trajectories returns a transducer trajectory whose first
\* position is init_position, and adds the one offset init_position -
\* rotated_trans_positions[0] to every rotated camera and transducer position.
C5_InitialPositionCorrection ==
    [][(calls' = Append(calls, "georeference_trajectories") /\ error' = "none")
        => LET rotation == georeference_rotation(init_attitude')
               offset == VSub(init_position',
                              MatrixRotate(rotation, trans_positions[1]))
           IN  /\ Len(trans_positions') = Len(trans_positions)
               /\ Len(cam_positions') = Len(cam_positions)
               /\ trans_positions'[1] = init_position'
               /\ \A i \in 1..Len(trans_positions) :
                      trans_positions'[i] =
                          VAdd(MatrixRotate(rotation, trans_positions[i]), offset)
               /\ \A i \in 1..Len(cam_positions) :
                      cam_positions'[i] =
                          VAdd(MatrixRotate(rotation, cam_positions[i]), offset)
      ]_vars

\* C5's case: three samples georeferenced with a rotation about all three
\* axes to a fix away from the origin, the lever arm not zero.
C5_Witness ==
    /\ Returned("georeference_trajectories")
    /\ Len(trans_positions) = 3
    /\ Len(cam_positions) = 3
    /\ init_attitude = <<AngleThreeFour, AngleQuarter, AngleHalf>>
    /\ init_position = Vec(5, -7, 9)
    /\ trans_positions[1] = init_position
    /\ cam_positions[1] # trans_positions[1]
    /\ trans_positions[2] # trans_positions[1]

\* C6: calculate_transducer_trajectory returns cam_pos[i] + q_i * lever_arm[i]
\* * conj(q_i) for every sample i, and the camera positions themselves when
\* every lever arm is zero.
C6_TransducerTrajectory ==
    (Returned("calculate_transducer_trajectory")
        /\ SameSampleCount(cam_positions, cam_attitudes, lever_arms))
        => /\ Len(trans_positions) = Len(cam_positions)
           /\ \A i \in 1..Len(cam_positions) :
                  trans_positions[i] =
                      VAdd(cam_positions[i],
                           MatrixRotate(as_quat(cam_attitudes[i]), lever_arms[i]))
           /\ (\A i \in 1..Len(lever_arms) : lever_arms[i] = Vec(0, 0, 0))
                  => trans_positions = cam_positions

\* C6's case: three samples, each with its own attitude and lever arm.
C6_Witness ==
    /\ Returned("calculate_transducer_trajectory")
    /\ Len(cam_positions) = 3
    /\ cam_attitudes = Attitudes(2, 3)
    /\ lever_arms = [i \in 1..3 |-> Vec(i, -1, 2 * i)]
    /\ trans_positions[1] = VAdd(cam_positions[1], Vec(1, -2, -1))

\* C6's second case: zero lever arms under attitudes that are not the identity.
C6_WitnessZeroLever ==
    /\ Returned("calculate_transducer_trajectory")
    /\ Len(cam_positions) = 3
    /\ cam_attitudes = Attitudes(2, 3)
    /\ lever_arms = Tile(Vec(0, 0, 0), 3)
    /\ trans_positions = cam_positions

\* The arrays of the last trajectory call differ in their sample counts.  The
\* stages keep each array's count, so the counts after a call are those before.
SampleCountMismatch ==
    \/ Len(cam_positions) # Len(cam_attitudes)
    \/ (calls = <<"calculate_transducer_trajectory">>
          /\ Len(lever_arms) # Len(cam_positions))
    \/ (Len(calls) > 1 /\ Len(trans_positions) # Len(cam_positions))

\* C8: a trajectory stage called with arrays of unequal sample counts ends in
\* an error and returns nothing; a single sample is never broadcast.
C8_LengthMismatchRaises ==
    (calls # <<>> /\ SampleCountMismatch) => error # "none"

\* What the code does: numpy refuses counts that differ unless one is 1.
C8_OnlySingleSampleBroadcasts ==
    (calls # <<>> /\ error = "none" /\ SampleCountMismatch)
        => Len(cam_attitudes) = 1 \/ Len(cam_positions) = 1
              \/ Len(lever_arms) = 1

(***************************************************************************)
(* SLAM-relative mode: slam_relative_georeferencing, statement by          *)
(* statement.  The data argument holds one sequence per column; the        *)
(* columns of one frame have one length.  The attitude columns come with   *)
(* the scale column of the quaternion representation.  Angles in the data  *)
(* are degrees.  The measured distances and the measured inclination       *)
(* (0.21, 1.40, 2.00 and 48 degrees in the source) stand here as           *)
(* 0.2, 1.5, 2.0 and the angle of cosine 3/5: values with a rational       *)
(* hypotenuse, cosine and sine.  aps_positions is only plotted.            *)
(***************************************************************************)
measured_distances == <<Float(1, 5), Float(3, 2), Float(2, 1)>>

measured_inclination == AngleThreeFour

\* degrees * np.pi / 180, on the quarter turns
Radians(degrees) ==
    CASE degrees = 0 -> AngleZero
      [] degrees = 90 -> AngleQuarter
      [] degrees = 180 -> AngleHalf
      [] degrees = -90 -> AngleMinusQuarter

\* np.stack([PositionX, PositionY, PositionZ]).T
camera_positions(d) ==
    Transpose(<<d.Camera.PositionX, d.Camera.PositionY, d.Camera.PositionZ>>)

\* np.stack([Quaternion1, Quaternion2, Quaternion3, Quaternion4]).T
camera_attitudes(d) ==
    Transpose(<<d.Camera.Quaternion1, d.Camera.Quaternion2,
                d.Camera.Quaternion3, d.Camera.Quaternion4,
                d.Camera.QuaternionScale>>)

\* the first fix: northing, easting and depth at .iloc[0]
initial_position(d) ==
    <<d.APS.UTMNorthing[1], d.APS.UTMEasting[1], d.APS.Depth[1]>>

\* the first roll, pitch and heading, converted to radians
initial_attitude(d) ==
    <<Radians(d.Gyroscope.Roll[1]), Radians(d.Gyroscope.Pitch[1]),
      Radians(d.Gyroscope.Heading[1])>>

\* The statement that follows a statement of the function's body, with
\* georeference_trajectories ahead of align_trajectories.
slam_statement_after_georeference_first(statement) ==
    CASE statement = "configure" -> "extract"
      [] statement = "extract" -> "calculate_transducer_trajectory"
      [] statement = "calculate_transducer_trajectory" ->
             "georeference_trajectories"
      [] statement = "georeference_trajectories" -> "align_trajectories"
      [] statement = "align_trajectories" -> "plot_3D_trajectory"
      [] statement = "plot_3D_trajectory" -> "done"

\* The statement that follows a statement of the function's body.
slam_statement_after(statement) ==
    CASE statement = "configure" -> "extract"
      [] statement = "extract" -> "calculate_transducer_trajectory"
      [] statement = "calculate_transducer_trajectory" -> "align_trajectories"
      [] statement = "align_trajectories" -> "georeference_trajectories"
      [] statement = "georeference_trajectories" -> "plot_3D_trajectory"
      [] statement = "plot_3D_trajectory" -> "done"

\* The k-th column of an array of rows.
Column(rows, k) == [i \in 1..Len(rows) |-> rows[i][k]]

CameraFrames ==
    {LET pos == Track(start, n)
         att == Attitudes(k, n)
     IN  [PositionX |-> Column(pos, 1), PositionY |-> Column(pos, 2),
          PositionZ |-> Column(pos, 3),
          Quaternion1 |-> Column(att, 1), Quaternion2 |-> Column(att, 2),
          Quaternion3 |-> Column(att, 3), Quaternion4 |-> Column(att, 4),
          QuaternionScale |-> Column(att, 5)] :
     n \in SampleCounts, start \in PositionStarts, k \in 1..3}

APSFrames ==
    {[UTMNorthing |-> Column(fixes, 1), UTMEasting |-> Column(fixes, 2),
      Depth |-> Column(fixes, 3)] :
     fixes \in {<<Vec(5, -7, 9)>>, <<Vec(0, 0, 0), Vec(1, 1, 1)>>}}

GyroscopeFrames ==
    {[Roll |-> Column(rows, 1), Pitch |-> Column(rows, 2),
      Heading |-> Column(rows, 3)] :
     rows \in {<<<<0, 0, 0>>>>, <<<<90, 0, -90>>, <<0, 0, 0>>>>,
               <<<<0, 90, 180>>>>}}

InitSlam ==
    /\ FilterIdle
    /\ LeverIdle
    /\ TrajIdle
    /\ CameraIdle
    /\ pc = "configure"
    /\ \E c \in CameraFrames, a \in APSFrames, g \in GyroscopeFrames :
           dataset = [Camera |-> c, APS |-> a, Gyroscope |-> g]
    /\ calls = <<>>
    /\ error = "none"

\* lines 215-218
SlamConfigure ==
    /\ pc = "configure"
    /\ pc' = slam_statement_after(pc)
    /\ arm' = measured_distances
    /\ angle' = measured_inclination
    /\ lever_arm' = calculate_lever_arm(measured_distances, measured_inclination)
    /\ inclination' = measured_inclination
    /\ calls' = Append(calls, "calculate_lever_arm")
    /\ UNCHANGED <<filter_vars, cam_positions, cam_attitudes, lever_arms,
                   trans_positions, init_position, init_attitude, dataset,
                   camera_vars, error>>

\* lines 221-244
SlamExtract ==
    /\ pc = "extract"
    /\ pc' = slam_statement_after(pc)
    /\ cam_positions' = camera_positions(dataset)
    /\ cam_attitudes' = camera_attitudes(dataset)
    /\ init_position' = initial_position(dataset)
    /\ init_attitude' = initial_attitude(dataset)
    /\ lever_arms' = Tile(lever_arm, Len(camera_positions(dataset)))
    /\ UNCHANGED <<filter_vars, lever_vars, trans_positions, inclination,
                   dataset, camera_vars, calls, error>>

\* lines 247-248
SlamTransducerTrajectory ==
    /\ pc = "calculate_transducer_trajectory"
    /\ error = "none"
    /\ calls' = Append(calls, "calculate_transducer_trajectory")
    /\ IF calculate_transducer_trajectory_raises(cam_positions, cam_attitudes,
                                                 lever_arms)
       THEN error' = "ValueError" /\ UNCHANGED <<pc, trans_positions>>
       ELSE /\ trans_positions' = calculate_transducer_trajectory(
                    cam_positions, cam_attitudes, lever_arms)
            /\ pc' = slam_statement_after(pc)
            /\ UNCHANGED error
    /\ UNCHANGED <<filter_vars, lever_vars, cam_positions, cam_attitudes,
                   lever_arms, inclination, init_position, init_attitude,
                   dataset, camera_vars>>

\* lines 251-252
SlamAlignTrajectories ==
    /\ pc = "align_trajectories"
    /\ error = "none"
    /\ calls' = Append(calls, "align_trajectories")
    /\ IF align_trajectories_raises(cam_positions, cam_attitudes,
                                    trans_positions)
       THEN /\ error' = "ValueError"
            /\ UNCHANGED <<pc, cam_positions, cam_attitudes, trans_positions>>
       ELSE LET r == align_trajectories(cam_positions, cam_attitudes,
                                        trans_positions, inclination)
            IN  /\ cam_positions' = r.cam_positions
                /\ cam_attitudes' = r.cam_attitudes
                /\ trans_positions' = r.trans_positions
                /\ pc' = slam_statement_after(pc)
                /\ UNCHANGED error
    /\ UNCHANGED <<filter_vars, lever_vars, lever_arms, inclination,
                   init_position, init_attitude, dataset, camera_vars>>

\* lines 255-257
SlamGeoreferenceTrajectories ==
    /\ pc = "georeference_trajectories"
    /\ error = "none"
    /\ calls' = Append(calls, "georeference_trajectories")
    /\ LET r == georeference_trajectories(cam_positions, cam_attitudes,
                    trans_positions, init_position, init_attitude)
       IN  /\ cam_positions' = r.cam_positions
           /\ cam_attitudes' = r.cam_attitudes
           /\ trans_positions' = r.trans_positions
    /\ pc' = slam_statement_after(pc)
    /\ UNCHANGED <<filter_vars, lever_vars, lever_arms, inclination,
                   init_position, init_attitude, dataset, camera_vars, error>>

\* lines 260-268: the figure reads the trajectories and changes none
SlamPlot ==
    /\ pc = "plot_3D_trajectory"
    /\ error = "none"
    /\ calls' = Append(calls, "plot_3D_trajectory")
    /\ pc' = slam_statement_after(pc)
    /\ UNCHANGED <<filter_vars, lever_vars, traj_vars, dataset, camera_vars,
                   error>>

NextSlam ==
    \/ SlamConfigure
    \/ SlamExtract
    \/ SlamTransducerTrajectory
    \/ SlamAlignTrajectories
    \/ SlamGeoreferenceTrajectories
    \/ SlamPlot

SpecSlam == InitSlam /\ [][NextSlam]_vars

(***************************************************************************)
(* Claims about the SLAM-relative mode, checked under SpecSlam.            *)
(***************************************************************************)
Stages ==
    <<"calculate_transducer_trajectory", "align_trajectories",
      "georeference_trajectories">>

IsStage(f) == \E i \in 1..Len(Stages) : Stages[i] = f

\* The stages called so far, in the order of their calls.
StageCalls == SelectSeq(calls, IsStage)

IsPrefix(s, t) == Len(s) <= Len(t) /\ \A i \in 1..Len(s) : s[i] = t[i]

\* What Stage A makes of the raw camera arrays of the data: the lever arm,
\* rotated by the raw attitude of each sample, added to the raw position.
StageAOutput ==
    [i \in 1..Len(camera_positions(dataset)) |->
        VAdd(camera_positions(dataset)[i],
             MatrixRotate(as_quat(camera_attitudes(dataset)[i]), lever_arm))]

\* What Stage B makes of the raw camera arrays and Stage A's output.
StageBOutput ==
    align_trajectories(camera_positions(dataset), camera_attitudes(dataset),
                       StageAOutput, measured_inclination)

\* What Stage C makes of Stage B's output.
StageCOutput ==
    georeference_trajectories(StageBOutput.cam_positions,
                              StageBOutput.cam_attitudes,
                              StageBOutput.trans_positions,
                              initial_position(dataset),
                              initial_attitude(dataset))

Trajectories ==
    [cam_positions |-> cam_positions, cam_attitudes |-> cam_attitudes,
     trans_positions |-> trans_positions]

\* C11: slam_relative_georeferencing calls Stage A, Stage B and Stage C in
\* this order, each once: Stage C never runs before Stage B has returned.
\* Stage A reads the raw camera arrays, so the lever arm is rotated by the
\* attitudes as they are in the data; Stage B reads what Stage A left, Stage
\* C what Stage B returned.
C11_StageOrder ==
    /\ IsPrefix(StageCalls, Stages)
    /\ pc = "done" => (StageCalls = Stages /\ error = "none")
    /\ Len(StageCalls) = 1 =>
           /\ cam_positions = camera_positions(dataset)
           /\ cam_attitudes = camera_attitudes(dataset)
           /\ trans_positions = StageAOutput
    /\ Len(StageCalls) = 2 => Trajectories = StageBOutput
    /\ Len(StageCalls) = 3 => Trajectories = StageCOutput

\* C11's case: a run over three camera samples has returned, the three
\* stages called in order, each stage having changed the trajectories.
C11_Witness ==
    /\ pc = "done"
    /\ calls = <<"calculate_lever_arm", "calculate_transducer_trajectory",
                 "align_trajectories", "georeference_trajectories",
                 "plot_3D_trajectory">>
    /\ Len(cam_positions) = 3
    /\ lever_arms = Tile(lever_arm, 3)
    /\ StageAOutput # camera_positions(dataset)
    /\ StageBOutput.trans_positions # StageAOutput
    /\ StageCOutput # StageBOutput
    /\ trans_positions[1] = init_position
    /\ cam_attitudes # camera_attitudes(dataset)

(***************************************************************************)
(* APS-relative mode: calculate_camera_trajectory.  A row of aps is a      *)
(* timestamp and a position; a row of gyro is a timestamp and the roll,    *)
(* pitch and heading angles, in radians.  The gyroscope series is not      *)
(* empty and ascends in time.                                              *)
(***************************************************************************)
TimeDistance(t, u) == FloatAbs(Sub(t, u))

\* utilities.closest_point(t, times): the indices it may return, those of
\* the timestamps nearest to t; which one of two equally near is not fixed.
closest_point(t, times) ==
    {j \in 1..Len(times) :
        \A i \in 1..Len(times) :
            Leq(TimeDistance(t, times[j]), TimeDistance(t, times[i]))}

\* q_body = q_roll * q_pitch * q_yaw of one gyroscope attitude
body_attitude(gyro_attitude) ==
    LET q_roll == quaternion_from_axis_angle(XAxis, gyro_attitude[1])
        q_pitch == quaternion_from_axis_angle(YAxis, gyro_attitude[2])
        q_yaw == quaternion_from_axis_angle(ZAxis, gyro_attitude[3])
    IN  QMul(QMul(q_roll, q_pitch), q_yaw)

\* lever_arms[k] of an array with fewer than K rows is an IndexError; the sum
\* aps[:, 1:] + lever_arms of arrays that do not broadcast is a ValueError.
calculate_camera_trajectory_raises(aps_, lever_arms_) ==
    IF Len(lever_arms_) < Len(aps_) THEN "IndexError"
    ELSE IF ~Broadcastable(Len(aps_), Len(lever_arms_)) THEN "ValueError"
    ELSE "none"

\* The lever arm rotated by q_cam, the declination included.
calculate_camera_trajectory_declined(aps_, gyro_, arms_, dec_, nearest) ==
    LET K == Len(aps_)
        q_dec == quaternion_from_axis_angle(YAxis, dec_)
        q_body(k) == body_attitude(SubSeq(gyro_[nearest[k]], 2, 4))
        q_cam(k) == QMul(q_dec, q_body(k))
        arms == vector_to_quaternion(arms_)
        rotated ==
            [k \in 1..Len(arms) |->
                IF k <= K
                THEN QMul(QMul(q_cam(k), arms[k]), QConj(q_cam(k)))
                ELSE arms[k]]
        directions ==
            [k \in 1..K |->
                QMul(QMul(q_cam(k), vector_to_quaternion_1(Vec(1, 0, 0))),
                     QConj(q_cam(k)))]
        positions == [k \in 1..K |-> SubSeq(aps_[k], 2, 4)]
    IN  [cam_positions |-> ArrVAdd(positions, quaternion_to_vector(rotated)),
         cam_attitudes |-> [k \in 1..K |-> q_cam(k)],
         cam_directions |-> quaternion_to_vector(directions)]

\* nearest[k] is the index closest_point returned in iteration k.
calculate_camera_trajectory(aps_, gyro_, arms_, dec_, nearest) ==
    LET K == Len(aps_)
        q_dec == quaternion_from_axis_angle(YAxis, dec_)
        q_body(k) == body_attitude(SubSeq(gyro_[nearest[k]], 2, 4))
        q_cam(k) == QMul(q_dec, q_body(k))
        arms == vector_to_quaternion(arms_)
        rotated ==
            [k \in 1..Len(arms) |->
                IF k <= K
                THEN QMul(QMul(q_body(k), arms[k]), QConj(q_body(k)))
                ELSE arms[k]]
        directions ==
            [k \in 1..K |->
                QMul(QMul(q_cam(k), vector_to_quaternion_1(Vec(1, 0, 0))),
                     QConj(q_cam(k)))]
        positions == [k \in 1..K |-> SubSeq(aps_[k], 2, 4)]
    IN  [cam_positions |-> ArrVAdd(positions, quaternion_to_vector(rotated)),
         cam_attitudes |-> [k \in 1..K |-> q_cam(k)],
         cam_directions |-> quaternion_to_vector(directions)]

\* K fixes from a first timestamp on, three time units apart, along a track.
APSSeries(first, start, K) ==
    [k \in 1..K |->
        <<Float(first + 3 * (k - 1), 1)>> \o Track(start, K)[k]]

FirstTimestamps == {0, 1, 3}

\* Roll, pitch and heading of the gyroscope samples, taken in turns.
GyroAttitudeList ==
    <<<<AngleZero, AngleZero, AngleQuarter>>,
      <<AngleQuarter, AngleZero, AngleMinusQuarter>>,
      <<AngleThreeFour, AngleQuarter, AngleHalf>>>>

\* M samples at the timestamps 2, 4, ..., 2M.
GyroSeries(g, M) ==
    [j \in 1..M |->
        <<Float(2 * j, 1)>> \o GyroAttitudeList[((j + g - 2) % 3) + 1]]

Declinations == {AngleZero, AngleThreeFour}

InitCamera ==
    /\ FilterIdle
    /\ LeverIdle
    /\ SlamIdle
    /\ \E K \in SampleCounts, first \in FirstTimestamps,
          start \in PositionStarts :
           aps = APSSeries(first, start, K)
    /\ \E M \in SampleCounts, g \in 1..2 : gyro = GyroSeries(g, M)
    /\ \E n \in SampleCounts : lever_arms \in LeverArmArrays(n)
    /\ declination \in Declinations
    /\ cam_positions = NotUsed
    /\ cam_attitudes = NotUsed
    /\ cam_directions = NotUsed
    /\ trans_positions = NotUsed
    /\ inclination = NotUsed
    /\ init_position = NotUsed
    /\ init_attitude = NotUsed
    /\ calls = <<>>
    /\ error = "none"

CalculateCameraTrajectory ==
    /\ error = "none"
    /\ calls = <<>>
    /\ calls' = Append(calls, "calculate_camera_trajectory")
    /\ IF calculate_camera_trajectory_raises(aps, lever_arms) # "none"
       THEN /\ error' = calculate_camera_trajectory_raises(aps, lever_arms)
            /\ UNCHANGED <<cam_positions, cam_attitudes, cam_directions>>
       ELSE \E nearest \in [1..Len(aps) -> 1..Len(gyro)] :
               /\ \A k \in 1..Len(aps) :
                      nearest[k] \in
                          closest_point(aps[k][1], Column(gyro, 1))
               /\ LET r == calculate_camera_trajectory(aps, gyro, lever_arms,
                                                       declination, nearest)
                  IN  /\ cam_positions' = r.cam_positions
                      /\ cam_attitudes' = r.cam_attitudes
                      /\ cam_directions' = r.cam_directions
               /\ UNCHANGED error
    /\ UNCHANGED <<filter_vars, lever_vars, slam_vars, lever_arms,
                   trans_positions, inclination, init_position, init_attitude,
                   aps, gyro, declination>>

NextCamera == CalculateCameraTrajectory

SpecCamera == InitCamera /\ [][NextCamera]_vars

(***************************************************************************)
(* Claims about the APS-relative mode, checked under SpecCamera.           *)
(***************************************************************************)
\* A vector turned by heading about z, then pitch about y, then roll about x.
BodyRotate(gyro_attitude, v) ==
    MatrixRotate(quaternion_from_axis_angle(XAxis, gyro_attitude[1]),
        MatrixRotate(quaternion_from_axis_angle(YAxis, gyro_attitude[2]),
            MatrixRotate(quaternion_from_axis_angle(ZAxis, gyro_attitude[3]),
                         v)))

\* Gyroscope sample j is as near in time to APS sample k as any sample is.
NearestInTime(k, j) ==
    \A i \in 1..Len(gyro) :
        Leq(TimeDistance(aps[k][1], gyro[j][1]),
            TimeDistance(aps[k][1], gyro[i][1]))

\* C12: for K APS samples, K lever arms and a non-empty ascending gyroscope
\* series, calculate_camera_trajectory returns K positions, K attitudes and K
\* directions, and the k-th of each is computed from a gyroscope sample that
\* minimises |aps_time[k] - gyro_time|: the position is aps_position[k] plus
\* the k-th lever arm rotated once by that sample's body attitude, the
\* attitude is the declination times the body attitude, the direction is the
\* x axis rotated by that attitude.
C12_NearestGyroscopeSample ==
    (Returned("calculate_camera_trajectory") /\ Len(lever_arms) = Len(aps)) =>
        /\ Len(cam_positions) = Len(aps)
        /\ Len(cam_attitudes) = Len(aps)
        /\ Len(cam_directions) = Len(aps)
        /\ \A k \in 1..Len(aps) :
               \E j \in 1..Len(gyro) :
                   LET gyro_attitude == SubSeq(gyro[j], 2, 4)
                       q_cam == QMul(quaternion_from_axis_angle(YAxis,
                                                                declination),
                                     body_attitude(gyro_attitude))
                   IN  /\ NearestInTime(k, j)
                       /\ cam_positions[k] =
                              VAdd(SubSeq(aps[k], 2, 4),
                                   BodyRotate(gyro_attitude, lever_arms[k]))
                       /\ cam_attitudes[k] = q_cam
                       /\ cam_directions[k] = MatrixRotate(q_cam, Vec(1, 0, 0))

\* C12's case: three fixes at the times 1, 4 and 7 against gyroscope samples
\* at 2, 4 and 6 (before the first, equal to one, after the last), each
\* sample with its own attitude, a lever arm per fix and a declination.
C12_Witness ==
    /\ Returned("calculate_camera_trajectory")
    /\ Len(aps) = 3
    /\ aps[1][1] = Float(1, 1)
    /\ gyro = GyroSeries(2, 3)
    /\ lever_arms = [i \in 1..3 |-> Vec(i, -1, 2 * i)]
    /\ declination = AngleThreeFour
    /\ closest_point(aps[1][1], Column(gyro, 1)) = {1}
    /\ closest_point(aps[2][1], Column(gyro, 1)) = {2}
    /\ closest_point(aps[3][1], Column(gyro, 1)) = {3}
    /\ \A k \in 1..3 :
           cam_positions[k] =
               VAdd(SubSeq(aps[k], 2, 4),
                    BodyRotate(SubSeq(gyro[k], 2, 4), lever_arms[k]))
    /\ cam_positions[1] # VAdd(SubSeq(aps[1], 2, 4), lever_arms[1])

\* C12's second case: a fix midway between two gyroscope samples, computed
\* from the later of the two.
C12_WitnessTie ==
    /\ Returned("calculate_camera_trajectory")
    /\ Len(aps) = Len(lever_arms)
    /\ closest_point(aps[1][1], Column(gyro, 1)) = {1, 2}
    /\ cam_attitudes[1] =
           QMul(quaternion_from_axis_angle(YAxis, declination),
                body_attitude(SubSeq(gyro[2], 2, 4)))
    /\ cam_attitudes[1] #
           QMul(quaternion_from_axis_angle(YAxis, declination),
                body_attitude(SubSeq(gyro[1], 2, 4)))

=============================================================================
